---- MODULE Spec2Model ----
(***************************************************************************)
(* Consensus core of COINjecture: bounty-escrow validators                 *)
(* (coinjecture-core/src/escrow.rs), commit-reveal protocol                *)
(* (network-b/core/src/commitment.rs), the NP-problem verifiers            *)
(* (network-b/core/src/problem.rs), signed transfers                       *)
(* (network-b/core/src/transaction.rs), the work score                     *)
(* (network-b/consensus/src/work_score.rs) and the strict codec.           *)
(*                                                                         *)
(* The specifications share the variables below:                           *)
(*   SpecEscrow       one escrow's lifecycle driven through the validators;*)
(*   SpecEscrowApi    the functions of escrow.rs called one at a time;     *)
(*   SpecCommit       Commitment::create, Commitment::verify and           *)
(*                    SolutionReveal::verify;                              *)
(*   SpecProblem      Solution::verify and Solution::quality;              *)
(*   SpecWorkScore    WorkScoreCalculator::calculate and difficulty_weight;*)
(*   SpecTransaction  Transaction::new, verify_signature and is_valid;     *)
(*   SpecCodec        decoding and round trips of both wire forms.         *)
(***************************************************************************)
EXTENDS Integers, Sequences, FiniteSets, TLC

VARIABLES
    escrow,         \* the chain store's copy of one BountyEscrow, or NoEscrow
    current_block,  \* block height the executor hands to refund validation
    reveal,         \* a SolutionReveal object, or NoReveal
    call,           \* the last function invoked, with its arguments
    result          \* the value that invocation returned

vars == <<escrow, current_block, reveal, call, result>>

(***************************************************************************)
(* Bounds of the model.                                                    *)
(***************************************************************************)
\* how far around each threshold of the escrow rules the inputs are drawn
Slack == 1

(***************************************************************************)
(* Option<T>, Result<(), ConsensusError>                                   *)
(***************************************************************************)
None == <<>>
Some(x) == <<x>>

Ok == [kind |-> "Ok"]
IsOk(r) == r.kind = "Ok"

InsufficientBalance(available, required) ==
    [kind |-> "InsufficientBalance", available |-> available, required |-> required]

InvalidParameter(param, reason) ==
    [kind |-> "InvalidParameter", param |-> param, reason |-> reason]

InvalidStateTransition(from, to) ==
    [kind |-> "InvalidStateTransition", from |-> from, to |-> to]

(***************************************************************************)
(* Fixed-width byte strings.                                               *)
(***************************************************************************)
ADDRESS_LEN == 32

\* [b; 32]
Filled(b) == [i \in 1..ADDRESS_LEN |-> b]

\* the all-zero array [0u8; 32]
ZERO_ADDRESS == Filled(0)

\* an address that is zero in every byte but the last
LastByteOne == [i \in 1..ADDRESS_LEN |-> IF i = ADDRESS_LEN THEN 1 ELSE 0]

\* an address that is zero in the first byte only
FirstByteZero == [i \in 1..ADDRESS_LEN |-> IF i = 1 THEN 0 ELSE 7]

\* n.to_le_bytes() for an integer of `width` bytes (two's complement: \div
\* rounds down, so a negative n sign-extends)
RECURSIVE to_le_bytes(_, _)
to_le_bytes(n, width) ==
    IF width = 0 THEN <<>>
    ELSE <<n % 256>> \o to_le_bytes(n \div 256, width - 1)

\* SHA-256 as a collision-free digest: the digest names its preimage
sha256(data) == [sha256 |-> data]

(***************************************************************************)
(* escrow.rs                                                               *)
(***************************************************************************)
MIN_ESCROW_AMOUNT == 1000
MIN_ESCROW_DURATION == 100
MAX_ESCROW_DURATION == 100000

Locked == "EscrowState::Locked"
Released == "EscrowState::Released"
Refunded == "EscrowState::Refunded"
EscrowState == {Locked, Released, Refunded}

\* format!("{:?}", state): the derived Debug prints the variant's name
DebugState(s) ==
    CASE s = Locked -> "Locked"
      [] s = Released -> "Released"
      [] s = Refunded -> "Refunded"

\* variant that keeps only the low byte of created_block
compute_escrow_id_one_byte_block(submitter, problem_hash, created_block) ==
    sha256(submitter \o problem_hash \o to_le_bytes(created_block, 1))

compute_escrow_id(submitter, problem_hash, created_block) ==
    LET preimage == submitter \o problem_hash \o to_le_bytes(created_block, 8)
    IN  sha256(preimage)

\* u64::checked_sub
checked_sub(a, b) == IF a >= b THEN Some(a - b) ELSE None

\* variant: the upper duration bound taken as exclusive
validate_escrow_creation_exclusive_max(amount, created_block, expiry_block) ==
    IF amount < MIN_ESCROW_AMOUNT
    THEN InsufficientBalance(amount, MIN_ESCROW_AMOUNT)
    ELSE IF expiry_block <= created_block
    THEN InvalidParameter("expiry_block",
            <<"Expiry block must be after created block", expiry_block, created_block>>)
    ELSE IF expiry_block - created_block < MIN_ESCROW_DURATION
    THEN InvalidParameter("duration",
            <<"Duration below minimum", expiry_block - created_block, MIN_ESCROW_DURATION>>)
    ELSE IF expiry_block - created_block >= MAX_ESCROW_DURATION
    THEN InvalidParameter("duration",
            <<"Duration exceeds maximum", expiry_block - created_block, MAX_ESCROW_DURATION>>)
    ELSE Ok

\* variant: block ordering checked before the amount
validate_escrow_creation_order_first(amount, created_block, expiry_block) ==
    IF expiry_block <= created_block
    THEN InvalidParameter("expiry_block",
            <<"Expiry block must be after created block", expiry_block, created_block>>)
    ELSE IF amount < MIN_ESCROW_AMOUNT
    THEN InsufficientBalance(amount, MIN_ESCROW_AMOUNT)
    ELSE IF expiry_block - created_block < MIN_ESCROW_DURATION
    THEN InvalidParameter("duration",
            <<"Duration below minimum", expiry_block - created_block, MIN_ESCROW_DURATION>>)
    ELSE IF expiry_block - created_block > MAX_ESCROW_DURATION
    THEN InvalidParameter("duration",
            <<"Duration exceeds maximum", expiry_block - created_block, MAX_ESCROW_DURATION>>)
    ELSE Ok

validate_escrow_creation(amount, created_block, expiry_block) ==
    IF amount < MIN_ESCROW_AMOUNT
    THEN InsufficientBalance(amount, MIN_ESCROW_AMOUNT)
    ELSE IF expiry_block <= created_block
    THEN InvalidParameter("expiry_block",
            <<"Expiry block must be after created block", expiry_block, created_block>>)
    ELSE LET sub == checked_sub(expiry_block, created_block)
         IN  IF sub = None
             THEN InvalidParameter("duration", <<"Block number underflow">>)
             ELSE LET duration == sub[1]
                  IN  IF duration < MIN_ESCROW_DURATION
                      THEN InvalidParameter("duration",
                              <<"Duration below minimum", duration, MIN_ESCROW_DURATION>>)
                      ELSE IF duration > MAX_ESCROW_DURATION
                      THEN InvalidParameter("duration",
                              <<"Duration exceeds maximum", duration, MAX_ESCROW_DURATION>>)
                      ELSE Ok

\* variant: any move into Refunded allowed (Released -> Refunded not excluded)
validate_state_transition_any_refund(current_state, new_state) ==
    IF current_state = new_state
    THEN Ok
    ELSE CASE current_state = Locked /\ new_state = Released -> Ok
           [] new_state = Refunded -> Ok
           [] OTHER -> InvalidStateTransition(DebugState(current_state),
                                              DebugState(new_state))

validate_state_transition(current_state, new_state) ==
    IF current_state = new_state
    THEN Ok
    ELSE CASE current_state = Locked /\ new_state = Released -> Ok
           [] current_state = Locked /\ new_state = Refunded -> Ok
           [] OTHER -> InvalidStateTransition(DebugState(current_state),
                                              DebugState(new_state))

\* variant of validate_escrow_release that closes at the expiry block
validate_escrow_release_until_expiry(e, recipient) ==
    IF e.state # Locked
    THEN InvalidStateTransition(DebugState(e.state), "Released")
    ELSE IF recipient = ZERO_ADDRESS
    THEN InvalidParameter("recipient", <<"Recipient cannot be zero address">>)
    ELSE IF current_block >= e.expiry_block
    THEN InvalidParameter("current_block", <<"Escrow expired">>)
    ELSE Ok

\* variant of validate_escrow_release without the state check
validate_escrow_release_any_state(e, recipient) ==
    IF recipient = ZERO_ADDRESS
    THEN InvalidParameter("recipient", <<"Recipient cannot be zero address">>)
    ELSE Ok

\* variant: only the first byte of the recipient compared with zero
validate_escrow_release_first_byte(e, recipient) ==
    IF e.state # Locked
    THEN InvalidStateTransition(DebugState(e.state), "Released")
    ELSE IF recipient[1] = 0
    THEN InvalidParameter("recipient", <<"Recipient cannot be zero address">>)
    ELSE Ok

validate_escrow_release(e, recipient) ==
    IF e.state # Locked
    THEN InvalidStateTransition(DebugState(e.state), "Released")
    ELSE IF recipient = ZERO_ADDRESS
    THEN InvalidParameter("recipient", <<"Recipient cannot be zero address">>)
    ELSE Ok

\* variant: refund refused at the expiry block itself
validate_escrow_refund_strict(e, block) ==
    IF e.state # Locked
    THEN InvalidStateTransition(DebugState(e.state), "Refunded")
    ELSE IF block <= e.expiry_block
    THEN InvalidParameter("current_block",
            <<"Cannot refund before expiry", block, e.expiry_block>>)
    ELSE Ok

\* variant that consults the chain's height instead of its argument
validate_escrow_refund_reads_chain(e, block) ==
    IF e.state # Locked
    THEN InvalidStateTransition(DebugState(e.state), "Refunded")
    ELSE IF current_block < e.expiry_block
    THEN InvalidParameter("current_block",
            <<"Cannot refund before expiry", block, e.expiry_block>>)
    ELSE Ok

validate_escrow_refund(e, block) ==
    IF e.state # Locked
    THEN InvalidStateTransition(DebugState(e.state), "Refunded")
    ELSE IF block < e.expiry_block
    THEN InvalidParameter("current_block",
            <<"Cannot refund before expiry", block, e.expiry_block>>)
    ELSE Ok

\* struct BountyEscrow, as the caller builds it after creation validated
BountyEscrow(submitter, amount, problem_hash, created_block, expiry_block) ==
    [id |-> compute_escrow_id(submitter, problem_hash, created_block),
     submitter |-> submitter,
     amount |-> amount,
     problem_hash |-> problem_hash,
     created_block |-> created_block,
     expiry_block |-> expiry_block,
     state |-> Locked,
     recipient |-> None,
     settled_block |-> None,
     settlement_tx |-> None]

\* the caller's mutation once a settlement validated
Settle(e, new_state, recipient, block, tx) ==
    [e EXCEPT !.state = new_state,
              !.recipient = recipient,
              !.settled_block = Some(block),
              !.settlement_tx = Some(tx)]

NoEscrow == [state |-> "none"]
NoReveal == [problem |-> "none"]
NoCall == [fn |-> "none"]
\* nothing returned yet
NoResult == [kind |-> "none"]

(***************************************************************************)
(* Inputs of the escrow specification.                                     *)
(***************************************************************************)
Around(n) == {m \in (n - Slack)..(n + Slack) : m >= 0}

Amounts == {0} \cup Around(MIN_ESCROW_AMOUNT)
CreatedBlocks == {0, 1000}
Durations == Around(0) \cup Around(MIN_ESCROW_DURATION) \cup Around(MAX_ESCROW_DURATION)
ExpiryBlocks(created) ==
    {created + d : d \in Durations} \cup {m \in Around(created) : TRUE}
\* heights the chain can reach while the escrow is watched: around its expiry
Heights(e) == Around(e.expiry_block)
Recipients == {ZERO_ADDRESS, Filled(3), LastByteOne, FirstByteZero}
Submitter == Filled(1)
ProblemHashBytes == Filled(2)
SettlementTx == Filled(4)

(***************************************************************************)
(* SpecEscrow: actions.                                                    *)
(***************************************************************************)
\* validate_escrow_creation for the escrow being created, and the escrow the
\* caller stores when it passed
CreateEscrow(amount, created_block, expiry_block) ==
    LET r == validate_escrow_creation(amount, created_block, expiry_block)
    IN  /\ escrow = NoEscrow
        /\ call' = [fn |-> "validate_escrow_creation", amount |-> amount,
                    created_block |-> created_block, expiry_block |-> expiry_block]
        /\ result' = r
        /\ escrow' = IF IsOk(r)
                     THEN BountyEscrow(Submitter, amount, ProblemHashBytes,
                                       created_block, expiry_block)
                     ELSE escrow
        /\ UNCHANGED <<current_block, reveal>>

\* validate_state_transition on the stored escrow's state
TransitionEscrow(new_state) ==
    LET r == validate_state_transition(escrow.state, new_state)
    IN  /\ escrow # NoEscrow
        /\ call' = [fn |-> "validate_state_transition",
                    current_state |-> escrow.state, new_state |-> new_state]
        /\ result' = r
        /\ escrow' = IF IsOk(r) /\ new_state # escrow.state
                     THEN Settle(escrow, new_state,
                                 IF new_state = Released THEN Some(Filled(3)) ELSE None,
                                 current_block, SettlementTx)
                     ELSE escrow
        /\ UNCHANGED <<current_block, reveal>>

\* validate_escrow_release on the stored escrow
ReleaseEscrow(recipient) ==
    LET r == validate_escrow_release(escrow, recipient)
    IN  /\ escrow # NoEscrow
        /\ call' = [fn |-> "validate_escrow_release", escrow |-> escrow,
                    recipient |-> recipient]
        /\ result' = r
        /\ escrow' = IF IsOk(r)
                     THEN Settle(escrow, Released, Some(recipient), current_block,
                                 SettlementTx)
                     ELSE escrow
        /\ UNCHANGED <<current_block, reveal>>

\* validate_escrow_refund on the stored escrow at the executor's height
RefundEscrow ==
    LET r == validate_escrow_refund(escrow, current_block)
    IN  /\ escrow # NoEscrow
        /\ call' = [fn |-> "validate_escrow_refund", escrow |-> escrow,
                    current_block |-> current_block]
        /\ result' = r
        /\ escrow' = IF IsOk(r)
                     THEN Settle(escrow, Refunded, None, current_block, SettlementTx)
                     ELSE escrow
        /\ UNCHANGED <<current_block, reveal>>

\* the chain grows
AdvanceBlock ==
    /\ escrow # NoEscrow
    /\ \E h \in Heights(escrow) : h > current_block /\ current_block' = h
    /\ UNCHANGED <<escrow, reveal, call, result>>

InitEscrow ==
    /\ escrow = NoEscrow
    /\ current_block = 0
    /\ reveal = NoReveal
    /\ call = NoCall
    /\ result = NoResult

NextEscrow ==
    \/ \E a \in Amounts, c \in CreatedBlocks :
          \E x \in ExpiryBlocks(c) : CreateEscrow(a, c, x)
    \/ \E s \in EscrowState : TransitionEscrow(s)
    \/ \E r \in Recipients : ReleaseEscrow(r)
    \/ RefundEscrow
    \/ AdvanceBlock

SpecEscrow == InitEscrow /\ [][NextEscrow]_vars

(***************************************************************************)
(* problem.rs: problems, solutions and the polynomial verifier.            *)
(***************************************************************************)
\* how many numbers a SubsetSum instance and how many indices a solution has
MaxLen == 2
\* the largest `variables` of a SAT instance
MaxVars == 1

SeqsUpTo(S, n) == UNION {[1..k -> S] : k \in 0..n}

\* what a call hands back: a value, or a panic that unwinds out of it
Returned(v) == [kind |-> "value", value |-> v]
Panicked(msg) == [kind |-> "panic", msg |-> msg]

\* enum ProblemType
SubsetSumProblem(numbers, target) ==
    [tag |-> "SubsetSum", numbers |-> numbers, target |-> target]
SATProblem(variables, clauses) ==
    [tag |-> "SAT", variables |-> variables, clauses |-> clauses]
TSPProblem(cities, distances) ==
    [tag |-> "TSP", cities |-> cities, distances |-> distances]
CustomProblem(problem_id, data) ==
    [tag |-> "Custom", problem_id |-> problem_id, data |-> data]

\* struct Clause
Clause(literals) == [literals |-> literals]

\* enum Solution
SubsetSumSolution(indices) == [tag |-> "SubsetSum", indices |-> indices]
SATSolution(assignment) == [tag |-> "SAT", assignment |-> assignment]
TSPSolution(tour) == [tag |-> "TSP", tour |-> tour]
CustomSolution(data) == [tag |-> "Custom", data |-> data]

\* slice::get with a 0-based index; an index that wrapped below zero stands
\* for one near usize::MAX and is out of range as well
Get(v, i) == IF i >= 0 /\ i < Len(v) THEN Some(v[i + 1]) ELSE None

\* Option::unwrap_or
unwrap_or(opt, default) == IF opt = None THEN default ELSE opt[1]

I32_MIN == -2147483647 - 1

\* indices.iter().map(|&i| numbers.get(i).unwrap_or(&0)).sum()
RECURSIVE SumSelected(_, _)
SumSelected(indices, numbers) ==
    IF indices = <<>> THEN 0
    ELSE unwrap_or(Get(numbers, Head(indices)), 0) + SumSelected(Tail(indices), numbers)

\* lit.abs() as usize - 1 where no overflow check stops it: abs(i32::MIN)
\* wraps to i32::MIN, which sign-extends to a huge usize, and 0 - 1 wraps to
\* usize::MAX; both are past the end of every Vec (written -1 here)
VarIdx(lit) ==
    IF lit = 0 \/ lit = I32_MIN THEN -1
    ELSE (IF lit < 0 THEN -lit ELSE lit) - 1

\* the closure of clause.literals.iter().any(..)
LitSatisfied(lit, assignment) ==
    LET value == unwrap_or(Get(assignment, VarIdx(lit)), FALSE)
    IN  IF lit > 0 THEN value ELSE ~value

\* clause.literals.iter().any(..)
ClauseSatisfied(clause, assignment) ==
    \E k \in 1..Len(clause.literals) : LitSatisfied(clause.literals[k], assignment)

\* variant of the TSP arm that never consults visited[]
TourVisitsAll_unvisited(tour, cities) ==
    /\ Len(tour) = cities
    /\ \A k \in 1..Len(tour) : tour[k] < cities

\* the TSP arm: visited[] marks each city the first time the tour names it
TourVisitsAll(tour, cities) ==
    /\ Len(tour) = cities
    /\ \A k \in 1..Len(tour) :
          /\ tour[k] < cities
          /\ \A j \in 1..(k - 1) : tour[j] # tour[k]

\* variant of Solution::verify with an arm that accepts a Custom solution
\* whose bytes are the problem's data
Solution_verify_custom_accepts(s, p) ==
    CASE s.tag = "SubsetSum" /\ p.tag = "SubsetSum" ->
            SumSelected(s.indices, p.numbers) = p.target
      [] s.tag = "SAT" /\ p.tag = "SAT" ->
            IF Len(s.assignment) # p.variables THEN FALSE
            ELSE \A c \in 1..Len(p.clauses) :
                    ClauseSatisfied(p.clauses[c], s.assignment)
      [] s.tag = "TSP" /\ p.tag = "TSP" -> TourVisitsAll(s.tour, p.cities)
      [] s.tag = "Custom" /\ p.tag = "Custom" -> s.data = p.data
      [] OTHER -> FALSE

\* Solution::verify, the value it returns when it returns
Solution_verify(s, p) ==
    CASE s.tag = "SubsetSum" /\ p.tag = "SubsetSum" ->
            SumSelected(s.indices, p.numbers) = p.target
      [] s.tag = "SAT" /\ p.tag = "SAT" ->
            IF Len(s.assignment) # p.variables THEN FALSE
            ELSE \A c \in 1..Len(p.clauses) :
                    ClauseSatisfied(p.clauses[c], s.assignment)
      [] s.tag = "TSP" /\ p.tag = "TSP" -> TourVisitsAll(s.tour, p.cities)
      [] OTHER -> FALSE

\* the literal at (c, k) is evaluated: all() reached clause c because every
\* earlier clause was satisfied, any() reached literal k because every
\* earlier literal of the clause was false
LiteralReached(s, p, c, k) ==
    /\ \A c0 \in 1..(c - 1) : ClauseSatisfied(p.clauses[c0], s.assignment)
    /\ \A k0 \in 1..(k - 1) : ~LitSatisfied(p.clauses[c].literals[k0], s.assignment)

\* Solution::verify panics when overflow checks are compiled in and it
\* evaluates `lit.abs() as usize - 1` for lit = 0 or lit = i32::MIN
Solution_verify_panics(s, p) ==
    /\ s.tag = "SAT" /\ p.tag = "SAT"
    /\ Len(s.assignment) = p.variables
    /\ \E c \in 1..Len(p.clauses) : \E k \in 1..Len(p.clauses[c].literals) :
          /\ p.clauses[c].literals[k] \in {0, I32_MIN}
          /\ LiteralReached(s, p, c, k)

(***************************************************************************)
(* problem.rs: Solution::quality.  A u64 is kept at its width as four      *)
(* 16-bit limbs, least significant first.                                  *)
(***************************************************************************)
LIMB == 65536

\* a small number as u64
U64(n) == <<n % LIMB, (n \div LIMB) % LIMB, 0, 0>>
\* u64::MAX
U64_MAX == <<LIMB - 1, LIMB - 1, LIMB - 1, LIMB - 1>>
\* 2^63
U64_HALF == <<0, 0, 0, LIMB \div 2>>

\* ripple-carry addition of two u64; the last entry is the carry out
RECURSIVE AddCarry(_, _, _, _)
AddCarry(a, b, k, carry) ==
    IF k > Len(a) THEN <<carry>>
    ELSE LET s == a[k] + b[k] + carry
         IN  <<s % LIMB>> \o AddCarry(a, b, k + 1, s \div LIMB)

\* u64::overflowing_add: the wrapped sum and whether it wrapped
overflowing_add(a, b) ==
    LET w == AddCarry(a, b, 1, 0)
    IN  [value |-> SubSeq(w, 1, Len(a)), overflow |-> w[Len(a) + 1] # 0]

\* the f64 values quality returns.  `length as f64 + 1.0` is named by the
\* u64 it was computed from; for length = 0 the quotient is 1.0 itself
F64_ZERO == [f64 |-> "0.0"]
F64_ONE == [f64 |-> "1.0"]
F64_recip_succ(length) ==
    IF length = U64(0) THEN F64_ONE
    ELSE [f64 |-> "1.0 / (length + 1.0)", length |-> length]

\* the loop of the TSP arm from iteration i on, `length` accumulated so far:
\* tour[i], tour[(i + 1) % cities] and distances[from][to] are indexed
\* without a check, `length +=` overflows as the build decides
RECURSIVE TourLength(_, _, _, _, _, _)
TourLength(tour, cities, distances, overflow_checks, i, length) ==
    IF i >= cities THEN Returned(length)
    ELSE LET from == tour[i + 1]
             to == tour[((i + 1) % cities) + 1]
         IN  IF from >= Len(distances)
             THEN Panicked("index out of bounds")
             ELSE IF to >= Len(distances[from + 1])
             THEN Panicked("index out of bounds")
             ELSE LET sum == overflowing_add(length, distances[from + 1][to + 1])
                  IN  IF sum.overflow /\ overflow_checks
                      THEN Panicked("attempt to add with overflow")
                      ELSE TourLength(tour, cities, distances, overflow_checks,
                                      i + 1, sum.value)

\* Solution::quality: what the call hands back
Solution_quality(s, p, overflow_checks) ==
    CASE s.tag = "SubsetSum" /\ p.tag = "SubsetSum" ->
            Returned(IF Solution_verify(s, p) THEN F64_ONE ELSE F64_ZERO)
      [] s.tag = "TSP" /\ p.tag = "TSP" ->
            IF ~Solution_verify(s, p) THEN Returned(F64_ZERO)
            ELSE LET l == TourLength(s.tour, p.cities, p.distances,
                                     overflow_checks, 0, U64(0))
                 IN  IF l.kind = "panic" THEN l
                     ELSE Returned(F64_recip_succ(l.value))
      [] s.tag = "SAT" /\ p.tag = "SAT" ->
            IF overflow_checks /\ Solution_verify_panics(s, p)
            THEN Panicked("attempt to subtract with overflow")
            ELSE Returned(IF Solution_verify(s, p) THEN F64_ONE ELSE F64_ZERO)
      [] OTHER -> Returned(F64_ZERO)

(***************************************************************************)
(* IEEE-754 doubles.  A double is NaN, an infinity, a zero or a finite     *)
(* non-zero number; the last three carry their sign, and a finite non-zero *)
(* number is named by the computation that produced it, so that equal      *)
(* computations on equal operands give equal doubles.  The operands used   *)
(* here are far from the limits of the range: a finite result stays        *)
(* finite and non-zero.                                                    *)
(***************************************************************************)
F64_NAN == [class |-> "NaN"]
F64_INFINITY(sign) == [class |-> "inf", sign |-> sign]
F64_SIGNED_ZERO(sign) == [class |-> "zero", sign |-> sign]
F64_FINITE(sign, term) == [class |-> "finite", sign |-> sign, term |-> term]

is_nan(a) == a.class = "NaN"

\* a * b
f64_mul(a, b) ==
    IF is_nan(a) \/ is_nan(b) THEN F64_NAN
    ELSE IF {a.class, b.class} = {"inf", "zero"} THEN F64_NAN
    ELSE LET sign == a.sign * b.sign
         IN  IF "zero" \in {a.class, b.class} THEN F64_SIGNED_ZERO(sign)
             ELSE IF "inf" \in {a.class, b.class} THEN F64_INFINITY(sign)
             ELSE F64_FINITE(sign, [mul_l |-> a.term, mul_r |-> b.term])

\* a / b: no division traps, a zero divisor gives an infinity or NaN
f64_div(a, b) ==
    IF is_nan(a) \/ is_nan(b) THEN F64_NAN
    ELSE IF a.class = b.class /\ a.class \in {"inf", "zero"} THEN F64_NAN
    ELSE LET sign == a.sign * b.sign
         IN  IF a.class = "zero" \/ b.class = "inf" THEN F64_SIGNED_ZERO(sign)
             ELSE IF b.class = "zero" \/ a.class = "inf" THEN F64_INFINITY(sign)
             ELSE F64_FINITE(sign, [div_n |-> a.term, div_d |-> b.term])

\* a.sqrt()
f64_sqrt(a) ==
    IF is_nan(a) THEN F64_NAN
    ELSE IF a.class = "zero" THEN a
    ELSE IF a.sign < 0 THEN F64_NAN
    ELSE IF a.class = "inf" THEN a
    ELSE F64_FINITE(1, [sqrt |-> a.term])

\* n as f64, for an unsigned integer n
usize_as_f64(n) ==
    IF n = 0 THEN F64_SIGNED_ZERO(1) ELSE F64_FINITE(1, [usize |-> n])

\* a.log2() of a converted unsigned integer: log2(0) is -inf, log2(1) is 0
f64_log2(a) ==
    IF is_nan(a) THEN F64_NAN
    ELSE IF a.class = "zero" THEN F64_INFINITY(-1)
    ELSE IF a.sign < 0 THEN F64_NAN
    ELSE IF a.class = "inf" THEN a
    ELSE IF a.term.usize = 1 THEN F64_SIGNED_ZERO(1)
    ELSE F64_FINITE(1, [log2 |-> a.term])

\* a.powi(2)
f64_powi2(a) ==
    IF is_nan(a) THEN F64_NAN
    ELSE IF a.class = "zero" THEN F64_SIGNED_ZERO(1)
    ELSE IF a.class = "inf" THEN F64_INFINITY(1)
    ELSE F64_FINITE(1, [powi_base |-> a.term, powi_exp |-> 2])

\* doubles written in thousandths: the literals and the energy readings
F64_milli(m) ==
    IF m = 0 THEN F64_SIGNED_ZERO(1)
    ELSE F64_FINITE(IF m < 0 THEN -1 ELSE 1, [milli |-> IF m < 0 THEN -m ELSE m])
Milli(a) == IF a.class = "zero" THEN 0 ELSE a.sign * a.term.milli

\* a + b for doubles written in thousandths
f64_add(a, b) ==
    IF is_nan(a) \/ is_nan(b) THEN F64_NAN
    ELSE IF a.class = "inf" /\ b.class = "inf"
    THEN IF a.sign = b.sign THEN a ELSE F64_NAN
    ELSE IF a.class = "inf" THEN a
    ELSE IF b.class = "inf" THEN b
    ELSE IF a.class = "zero" /\ b.class = "zero" /\ a.sign < 0 /\ b.sign < 0
    THEN F64_SIGNED_ZERO(-1)
    ELSE F64_milli(Milli(a) + Milli(b))

\* Duration::as_secs_f64 of a duration given in microseconds
Duration_as_secs_f64(micros) ==
    IF micros = 0 THEN F64_SIGNED_ZERO(1) ELSE F64_FINITE(1, [micros |-> micros])
Micros(a) == IF a.class = "zero" THEN 0 ELSE a.term.micros

\* a.max(b) for doubles that are seconds counted in microseconds
f64_max(a, b) == IF Micros(a) >= Micros(b) THEN a ELSE b

\* the double behind a value returned by Solution::quality
F64_of_quality(q) ==
    IF q = F64_ZERO THEN F64_SIGNED_ZERO(1) ELSE F64_FINITE(1, [quality |-> q])

(***************************************************************************)
(* problem.rs: ProblemType::difficulty_weight.                             *)
(***************************************************************************)
ProblemType_difficulty_weight(p) ==
    CASE p.tag = "SubsetSum" -> f64_log2(usize_as_f64(Len(p.numbers)))
      [] p.tag = "SAT" ->
            f64_mul(usize_as_f64(p.variables), f64_log2(usize_as_f64(Len(p.clauses))))
      [] p.tag = "TSP" -> f64_powi2(usize_as_f64(p.cities))
      [] p.tag = "Custom" -> F64_milli(1000)

(***************************************************************************)
(* work_score.rs: WorkScoreCalculator.                                     *)
(***************************************************************************)
\* WorkScoreCalculator::new().base_constant
base_constant == F64_milli(1000)

\* WorkScoreCalculator::calculate: the product, multiplied left to right
WorkScoreCalculator_calculate(problem, solution, solve_time, verify_time, solve_memory, verify_memory, energy_per_op, overflow_checks) ==
    LET time_ratio ==
            f64_div(Duration_as_secs_f64(solve_time),
                    f64_max(Duration_as_secs_f64(verify_time),
                            Duration_as_secs_f64(1000)))
        space_ratio ==
            f64_sqrt(f64_div(usize_as_f64(solve_memory), usize_as_f64(verify_memory)))
        problem_weight == ProblemType_difficulty_weight(problem)
        quality_score == Solution_quality(solution, problem, overflow_checks)
        energy_efficiency ==
            f64_div(F64_milli(1000), f64_add(energy_per_op, F64_milli(1000)))
    IN  IF quality_score.kind = "panic" THEN quality_score
        ELSE Returned(
               f64_mul(f64_mul(f64_mul(f64_mul(f64_mul(base_constant, time_ratio),
                                               space_ratio),
                                       problem_weight),
                               F64_of_quality(quality_score.value)),
                       energy_efficiency))

(***************************************************************************)
(* SpecProblem: Solution::verify and Solution::quality on bounded inputs.  *)
(***************************************************************************)
Numbers == -1..2
Targets == -1..3
SubsetSumProblems ==
    {SubsetSumProblem(n, t) : n \in SeqsUpTo(Numbers, MaxLen), t \in Targets}
\* index MaxLen is past the end of every instance
SubsetSumSolutions == {SubsetSumSolution(i) : i \in SeqsUpTo(0..MaxLen, MaxLen)}

\* literals up to one past the largest variable, 0 included
Literals == (-(MaxVars + 1))..(MaxVars + 1)
Clauses == {Clause(l) : l \in SeqsUpTo(Literals, 2)}
SATProblems == {SATProblem(v, c) : v \in 0..MaxVars, c \in SeqsUpTo(Clauses, 2)}
SATSolutions == {SATSolution(a) : a \in SeqsUpTo(BOOLEAN, MaxVars + 1)}

\* the largest `cities` of a TSP instance
MaxCities == 2

\* tours up to one city longer than the largest instance; city MaxCities is
\* in range for no instance
TSPSolutions == {TSPSolution(t) : t \in SeqsUpTo(0..MaxCities, MaxCities + 1)}

\* a rows x cols matrix filled with d (empty when rows < 1)
Matrix(rows, cols, d) == [i \in 1..rows |-> [j \in 1..cols |-> d]]
\* the c x c matrix whose entries are all different
Numbered(c) == [i \in 1..c |-> [j \in 1..c |-> U64((i - 1) * c + j)]]
DistanceEntries == {U64(0), U64(1), U64_HALF, U64_MAX}
\* what a block can carry as `distances` beside cities = c: the square
\* matrix, one with a row missing, one with short rows, a larger one
DistanceMatrices(c) ==
    {Numbered(c)} \cup
    UNION {{Matrix(c, c, d), Matrix(c - 1, c, d), Matrix(c, c - 1, d),
            Matrix(c + 1, c + 1, d)} : d \in DistanceEntries}
TSPProblems ==
    UNION {{TSPProblem(c, m) : m \in DistanceMatrices(c)} : c \in 0..MaxCities}

CustomProblems == {CustomProblem(Filled(5), d) : d \in {<<>>, <<0, 1>>}}
CustomSolutions == {CustomSolution(d) : d \in {<<>>, <<0, 1>>}}

\* every kind of solution against the smallest instance of every kind of
\* problem, kept where the kinds differ or the problem is Custom
AllSolutions ==
    SubsetSumSolutions \cup SATSolutions \cup TSPSolutions \cup CustomSolutions
ProbeProblems ==
    {SubsetSumProblem(<<>>, 0), SATProblem(0, <<>>), TSPProblem(0, <<>>)}
        \cup CustomProblems
MismatchInputs ==
    {sp \in AllSolutions \X ProbeProblems :
        sp[1].tag # sp[2].tag \/ sp[2].tag = "Custom"}

VerifyInputs ==
    (SubsetSumSolutions \X SubsetSumProblems) \cup (SATSolutions \X SATProblems)
        \cup (TSPSolutions \X TSPProblems) \cup MismatchInputs

\* solution.verify(&problem) in a build with or without overflow checks
CallVerify ==
    /\ call.fn = "Solution::verify"
    /\ result = NoResult
    /\ result' = IF call.overflow_checks /\ Solution_verify_panics(call.self, call.problem)
                 THEN Panicked("attempt to subtract with overflow")
                 ELSE Returned(Solution_verify(call.self, call.problem))
    /\ UNCHANGED <<escrow, current_block, reveal, call>>

\* solution.quality(&problem) in a build with or without overflow checks
CallQuality ==
    /\ call.fn = "Solution::quality"
    /\ result = NoResult
    /\ result' = Solution_quality(call.self, call.problem, call.overflow_checks)
    /\ UNCHANGED <<escrow, current_block, reveal, call>>

\* the arguments of the pending call are drawn here
InitProblem ==
    /\ escrow = NoEscrow
    /\ current_block = 0
    /\ reveal = NoReveal
    /\ \E sp \in VerifyInputs, checks \in BOOLEAN,
          fn \in {"Solution::verify", "Solution::quality"} :
          call = [fn |-> fn, self |-> sp[1], problem |-> sp[2],
                  overflow_checks |-> checks]
    /\ result = NoResult

NextProblem == CallVerify \/ CallQuality

SpecProblem == InitProblem /\ [][NextProblem]_vars

(***************************************************************************)
(* Properties of Solution::verify (checked under SpecProblem).             *)
(***************************************************************************)
VerifyReturned == call.fn = "Solution::verify" /\ result # NoResult
OnSubsetSum == call.self.tag = "SubsetSum" /\ call.problem.tag = "SubsetSum"
OnSAT == call.self.tag = "SAT" /\ call.problem.tag = "SAT"

HasDuplicate(v) == \E i, j \in 1..Len(v) : i < j /\ v[i] = v[j]
HasOutOfRange(v, n) == \E i \in 1..Len(v) : v[i] >= n

\* C8: for a SubsetSum problem, Solution::verify rejects every index list
\* that names the same index more than once, even when the listed numbers
\* (repeats counted) add up to the target.  (Stated on lists whose indices
\* are all in range, so that the repeat alone decides.)
C8_DuplicateIndicesRejected ==
    (VerifyReturned /\ OnSubsetSum
        /\ HasDuplicate(call.self.indices)
        /\ ~HasOutOfRange(call.self.indices, Len(call.problem.numbers))) =>
        result = Returned(FALSE)

\* C9: for a SubsetSum problem, Solution::verify rejects every index list
\* that contains an index >= numbers.len(), even when the in-range indices
\* alone add up to the target.  (Stated on lists without repeats, so that
\* the index past the end alone decides.)
C9_OutOfRangeIndexRejected ==
    (VerifyReturned /\ OnSubsetSum
        /\ ~HasDuplicate(call.self.indices)
        /\ HasOutOfRange(call.self.indices, Len(call.problem.numbers))) =>
        result = Returned(FALSE)

Magnitude(l) == IF l < 0 THEN -l ELSE l

\* literal l holds: its variable |l| (1-indexed) exists in the assignment
\* and has the value the sign asks for
LiteralHolds(l, assignment) ==
    /\ Magnitude(l) >= 1
    /\ Magnitude(l) <= Len(assignment)
    /\ (IF l < 0 THEN ~assignment[Magnitude(l)] ELSE assignment[Magnitude(l)])

Satisfies(assignment, p) ==
    /\ Len(assignment) = p.variables
    /\ \A c \in 1..Len(p.clauses) :
          \E k \in 1..Len(p.clauses[c].literals) :
              LiteralHolds(p.clauses[c].literals[k], assignment)

\* C10: for a SAT problem, Solution::verify returns true if and only if the
\* assignment has `variables` entries and every clause has a literal whose
\* variable exists in the assignment and evaluates to true; an empty clause
\* is never satisfied and a literal whose magnitude exceeds `variables`
\* satisfies no clause.
C10_SatVerifyRule ==
    (VerifyReturned /\ OnSAT /\ result.kind = "value") =>
        (result.value <=> Satisfies(call.self.assignment, call.problem))

OnTSP == call.self.tag = "TSP" /\ call.problem.tag = "TSP"
IsPermutation(tour, cities) ==
    /\ Len(tour) = cities
    /\ {tour[k] : k \in 1..Len(tour)} = 0..(cities - 1)

\* C11: for a TSP problem, Solution::verify is true if and only if the tour
\* has exactly `cities` entries, every entry is below `cities` and no city
\* occurs twice, that is, the tour is a permutation of 0..cities-1.
C11_TspVerifyRule ==
    (VerifyReturned /\ OnTSP) =>
        /\ result = Returned(/\ Len(call.self.tour) = call.problem.cities
                             /\ ~HasOutOfRange(call.self.tour, call.problem.cities)
                             /\ ~HasDuplicate(call.self.tour))
        /\ result.value <=> IsPermutation(call.self.tour, call.problem.cities)

\* verify has accepted a tour that is not in increasing order
C11_Witness ==
    /\ VerifyReturned /\ OnTSP
    /\ call.problem.cities >= 2
    /\ Len(call.self.tour) >= 2
    /\ call.self.tour[1] # 0
    /\ result = Returned(TRUE)

QualityReturned == call.fn = "Solution::quality" /\ result # NoResult
TagMismatch == call.self.tag # call.problem.tag \/ call.problem.tag = "Custom"

\* C12: Solution::verify returns false and Solution::quality returns 0
\* whenever the solution's tag differs from the problem's tag, and for every
\* Custom problem with any solution, a Custom solution included.
C12_MismatchAndCustomRejected ==
    /\ (VerifyReturned /\ TagMismatch) => result = Returned(FALSE)
    /\ (QualityReturned /\ TagMismatch) => result = Returned(F64_ZERO)

\* verify has refused a Custom solution that carries the Custom problem's
\* own bytes
C12_Witness ==
    /\ VerifyReturned
    /\ call.self.tag = "Custom" /\ call.problem.tag = "Custom"
    /\ call.self.data = call.problem.data
    /\ result = Returned(FALSE)

\* a natural number of any size: wraps * 2^64 + low
NatAdd(n, d) ==
    LET sum == overflowing_add(n.low, d)
    IN  [wraps |-> n.wraps + (IF sum.overflow THEN 1 ELSE 0), low |-> sum.value]

\* the cyclic sum of distances[tour[i]][tour[(i+1) mod cities]] over the
\* legs i..cities-1, as a natural number
RECURSIVE CyclicLength(_, _, _, _)
CyclicLength(tour, cities, distances, i) ==
    IF i >= cities THEN [wraps |-> 0, low |-> U64(0)]
    ELSE NatAdd(CyclicLength(tour, cities, distances, i + 1),
                distances[tour[i + 1] + 1][tour[((i + 1) % cities) + 1] + 1])

\* 1 / (n + 1) as an f64; for n of 2^64 and more it is below every quotient
\* a u64 length gives
RecipSucc(n) ==
    IF n.wraps = 0 THEN F64_recip_succ(n.low)
    ELSE [f64 |-> "1.0 / (length + 1.0)", length |-> n]

\* 0.0, 1.0 and 1 / (n + 1) for n >= 1 all lie in [0, 1]; only 0.0 is not
\* above 0
InUnitInterval(q) == q.f64 \in {"0.0", "1.0", "1.0 / (length + 1.0)"}
Positive(q) == q # F64_ZERO

\* C13: for every (solution, problem), quality lies in [0,1]; verify = false
\* implies quality = 0; verify = true implies quality > 0, with quality = 1
\* for SubsetSum and SAT and quality = 1 / (tour_length + 1) for TSP, where
\* tour_length is the cyclic sum of distances[tour[i]][tour[(i+1) mod cities]].
\* (Stated on the calls of quality that return a value.)
C13_QualityRule ==
    (QualityReturned /\ result.kind = "value") =>
        LET q == result.value
            valid == Solution_verify(call.self, call.problem)
        IN  /\ InUnitInterval(q)
            /\ ~valid => q = F64_ZERO
            /\ valid => Positive(q)
            /\ (valid /\ (OnSubsetSum \/ OnSAT)) => q = F64_ONE
            /\ (valid /\ OnTSP) =>
                  q = RecipSucc(CyclicLength(call.self.tour, call.problem.cities,
                                             call.problem.distances, 0))

\* C14: Solution::verify and Solution::quality return a value and never
\* panic for any problem/solution pair an adversary can supply, including a
\* SAT clause containing literal 0 or i32::MIN, a TSP distances matrix that
\* is not cities x cities, and TSP distances whose sum exceeds the u64 range.
C14_NeverPanics ==
    (VerifyReturned \/ QualityReturned) => result.kind = "value"

(***************************************************************************)
(* SpecWorkScore: WorkScoreCalculator::calculate and                       *)
(* ProblemType::difficulty_weight on measurements as a miner reports them. *)
(***************************************************************************)
\* problems of every variant and size class, each with solutions that
\* verify and solutions that do not
ScoredPairs ==
    {<<SubsetSumProblem(n, t), SubsetSumSolution(i)>> :
        n \in {<<>>, <<1>>, <<1, 2>>, <<1, 2, 3, 4>>}, t \in {0, 3},
        i \in {<<>>, <<0>>, <<0, 1>>}}
    \cup {<<SATProblem(v, c), SATSolution(a)>> :
            v \in {0, 1},
            c \in {<<>>, <<Clause(<<1>>)>>, <<Clause(<<1>>), Clause(<<-1>>)>>,
                   <<Clause(<<1>>), Clause(<<1>>)>>},
            a \in {<<>>, <<TRUE>>, <<FALSE>>}}
    \cup {<<TSPProblem(c, Numbered(c)), TSPSolution(t)>> :
            c \in {0, 2}, t \in {<<>>, <<0, 1>>, <<0, 0>>}}
    \cup {<<TSPProblem(2, Matrix(2, 2, U64_HALF)), TSPSolution(<<0, 1>>)>>}
    \cup {<<CustomProblem(Filled(5), <<0, 1>>), CustomSolution(<<0, 1>>)>>,
          <<SubsetSumProblem(<<1, 2>>, 3), SATSolution(<<TRUE>>)>>}

\* durations in microseconds, around the one-millisecond floor
SolveTimes == {0, 1000, 10000000}
VerifyTimes == {0, 500, 1000, 2000}
\* bytes
SolveMemories == {0, 1024, 1048576}
VerifyMemories == {0, 1, 1024}
\* joules per operation as the caller passes them: any double
EnergyValues ==
    {F64_NAN, F64_INFINITY(1), F64_INFINITY(-1), F64_milli(0), F64_milli(1),
     F64_milli(-500), F64_milli(-1000), F64_milli(-2000)}

\* calculator.calculate(..) with the arguments of the pending call
CallCalculate ==
    /\ call.fn = "WorkScoreCalculator::calculate"
    /\ result = NoResult
    /\ result' = WorkScoreCalculator_calculate(
                     call.problem, call.solution, call.solve_time,
                     call.verify_time, call.solve_memory, call.verify_memory,
                     call.energy_per_op, call.overflow_checks)
    /\ UNCHANGED <<escrow, current_block, reveal, call>>

\* problem.difficulty_weight() for the problem of the pending call
CallDifficultyWeight ==
    /\ call.fn = "ProblemType::difficulty_weight"
    /\ result = NoResult
    /\ result' = Returned(ProblemType_difficulty_weight(call.self))
    /\ UNCHANGED <<escrow, current_block, reveal, call>>

InitWorkScore ==
    /\ escrow = NoEscrow
    /\ current_block = 0
    /\ reveal = NoReveal
    /\ \/ \E pair \in ScoredPairs, st \in SolveTimes, vt \in VerifyTimes,
             sm \in SolveMemories, vm \in VerifyMemories, e \in EnergyValues,
             oc \in BOOLEAN :
             call = [fn |-> "WorkScoreCalculator::calculate",
                     problem |-> pair[1], solution |-> pair[2],
                     solve_time |-> st, verify_time |-> vt,
                     solve_memory |-> sm, verify_memory |-> vm,
                     energy_per_op |-> e, overflow_checks |-> oc]
       \/ \E pair \in ScoredPairs :
             call = [fn |-> "ProblemType::difficulty_weight", self |-> pair[1]]
    /\ result = NoResult

NextWorkScore == CallCalculate \/ CallDifficultyWeight

SpecWorkScore == InitWorkScore /\ [][NextWorkScore]_vars

(***************************************************************************)
(* Properties of the work score (checked under SpecWorkScore).             *)
(***************************************************************************)
CalculateReturned ==
    call.fn = "WorkScoreCalculator::calculate" /\ result.kind = "value"
QualityOfCall ==
    Solution_quality(call.solution, call.problem, call.overflow_checks)
IsZero(a) == a.class = "zero"
IsNegative(a) == a.class \in {"inf", "finite"} /\ a.sign < 0

\* C22: WorkScoreCalculator::calculate returns exactly 0 whenever
\* quality(solution, problem) = 0 (the solution does not verify), for every
\* value of solve_time, verify_time, solve_memory, verify_memory,
\* energy_per_op and every problem; and the returned score is never negative
\* and never NaN.
C22_ScoreZeroAndNonNegative ==
    CalculateReturned =>
        /\ (QualityOfCall = Returned(F64_ZERO)) => IsZero(result.value)
        /\ ~IsNegative(result.value)
        /\ ~is_nan(result.value)

\* the score of the pending call with other verification measurements
ScoreWith(verify_time, verify_memory) ==
    WorkScoreCalculator_calculate(
        call.problem, call.solution, call.solve_time, verify_time,
        call.solve_memory, verify_memory, call.energy_per_op,
        call.overflow_checks)
\* == on doubles: NaN equals nothing, the two zeros are equal
SameScore(a, b) ==
    /\ ~is_nan(a.value)
    /\ ~is_nan(b.value)
    /\ \/ a = b
       \/ IsZero(a.value) /\ IsZero(b.value)

\* C23: WorkScoreCalculator::calculate guards both divisions: verify_time is
\* floored at 1 ms and verify_memory is floored at 1 byte, so verify_time = 0
\* and verify_memory = 0 each give the same score as 1 ms and 1 byte
\* respectively and no division by zero occurs.
C23_DivisionsGuarded ==
    CalculateReturned =>
        /\ (call.verify_time = 0 /\ ~is_nan(ScoreWith(1000, call.verify_memory).value))
              => SameScore(result, ScoreWith(1000, call.verify_memory))
        /\ (call.verify_memory = 0 /\ ~is_nan(ScoreWith(call.verify_time, 1).value))
              => SameScore(result, ScoreWith(call.verify_time, 1))

DifficultyWeightReturned ==
    call.fn = "ProblemType::difficulty_weight" /\ result # NoResult

\* C24: difficulty_weight never returns a negative or infinite value: the
\* log2 term is clamped to 0 when its argument is below 2, so a SubsetSum
\* problem with 0 or 1 numbers and a SAT problem with 0 or 1 clauses have
\* weight 0; TSP has weight cities squared and Custom has weight 1.
C24_WeightRule ==
    DifficultyWeightReturned =>
        LET p == call.self
            w == result.value
        IN  /\ ~IsNegative(w)
            /\ w.class # "inf"
            /\ (p.tag = "SubsetSum" /\ Len(p.numbers) < 2) => IsZero(w)
            /\ (p.tag = "SAT" /\ Len(p.clauses) < 2) => IsZero(w)
            /\ (p.tag = "TSP") =>
                  IF p.cities = 0 THEN IsZero(w)
                  ELSE w = F64_FINITE(1, [powi_base |-> [usize |-> p.cities],
                                          powi_exp |-> 2])
            /\ (p.tag = "Custom") => w = F64_milli(1000)

(***************************************************************************)
(* types.rs, commitment.rs: digests, the canonical binary encoding that    *)
(* feeds them, commitments and reveals.                                    *)
(***************************************************************************)
\* Hash::new: BLAKE3 as a collision-free digest, the digest names its preimage
Hash_new(data) == [blake3 |-> data]

\* Hash::as_bytes: the 32 bytes of a digest, kept as one block
Hash_as_bytes(h) == <<h>>

RECURSIVE Flatten(_)
Flatten(ss) == IF ss = <<>> THEN <<>> ELSE Head(ss) \o Flatten(Tail(ss))

\* bincode of Vec<T> for an integer T of `width` bytes: u64 length, then the
\* elements, each little-endian and fixed-width (usize travels as u64)
ser_vec(v, width) ==
    to_le_bytes(Len(v), 8) \o Flatten([i \in 1..Len(v) |-> to_le_bytes(v[i], width)])

\* bincode of Vec<u64>: each limb gives two of an element's eight bytes
ser_u64s(v) ==
    to_le_bytes(Len(v), 8)
       \o Flatten([i \in 1..Len(v) |->
                     Flatten([k \in 1..Len(v[i]) |-> to_le_bytes(v[i][k], 2)])])

\* bincode of Vec<bool>: one byte per entry
ser_bools(v) ==
    to_le_bytes(Len(v), 8) \o [i \in 1..Len(v) |-> IF v[i] THEN 1 ELSE 0]

\* bincode of Vec<u8>
ser_bytes(v) == to_le_bytes(Len(v), 8) \o v

\* ProblemType::serialize: u32 variant index, then the fields in order
ProblemType_serialize(p) ==
    CASE p.tag = "SubsetSum" ->
            to_le_bytes(0, 4) \o ser_vec(p.numbers, 8) \o to_le_bytes(p.target, 8)
      [] p.tag = "SAT" ->
            to_le_bytes(1, 4) \o to_le_bytes(p.variables, 8)
               \o to_le_bytes(Len(p.clauses), 8)
               \o Flatten([i \in 1..Len(p.clauses) |-> ser_vec(p.clauses[i].literals, 4)])
      [] p.tag = "TSP" ->
            to_le_bytes(2, 4) \o to_le_bytes(p.cities, 8)
               \o to_le_bytes(Len(p.distances), 8)
               \o Flatten([i \in 1..Len(p.distances) |-> ser_u64s(p.distances[i])])
      [] p.tag = "Custom" ->
            to_le_bytes(3, 4) \o p.problem_id \o ser_bytes(p.data)

\* ProblemType::hash
ProblemType_hash(p) == Hash_new(ProblemType_serialize(p))

\* bincode::serialize(solution)
Solution_serialize(s) ==
    CASE s.tag = "SubsetSum" -> to_le_bytes(0, 4) \o ser_vec(s.indices, 8)
      [] s.tag = "SAT" -> to_le_bytes(1, 4) \o ser_bools(s.assignment)
      [] s.tag = "TSP" -> to_le_bytes(2, 4) \o ser_vec(s.tour, 8)
      [] s.tag = "Custom" -> to_le_bytes(3, 4) \o ser_bytes(s.data)

Commitment_create(problem, solution, epoch_salt) ==
    LET problem_hash == ProblemType_hash(problem)
        solution_hash == Hash_new(Solution_serialize(solution))
        commitment_data == Hash_as_bytes(problem_hash) \o Hash_as_bytes(epoch_salt)
                              \o Hash_as_bytes(solution_hash)
    IN  [hash |-> Hash_new(commitment_data), problem_hash |-> problem_hash]

\* variant: only the commitment hash compared
Commitment_verify_hash_only(c, problem, solution, epoch_salt) ==
    LET expected == Commitment_create(problem, solution, epoch_salt)
    IN  c.hash = expected.hash

Commitment_verify(c, problem, solution, epoch_salt) ==
    LET expected == Commitment_create(problem, solution, epoch_salt)
    IN  c.hash = expected.hash /\ c.problem_hash = expected.problem_hash

SolutionReveal_new(problem, solution, commitment) ==
    [problem |-> problem, solution |-> solution, commitment |-> commitment]

\* variant: the solution is not checked against the problem
SolutionReveal_verify_commitment_only(r, epoch_salt) ==
    Commitment_verify(r.commitment, r.problem, r.solution, epoch_salt)

SolutionReveal_verify(r, epoch_salt) ==
    IF ~Commitment_verify(r.commitment, r.problem, r.solution, epoch_salt)
    THEN FALSE
    ELSE Solution_verify(r.solution, r.problem)

\* SolutionReveal::verify panics where the solution check it reaches does
SolutionReveal_verify_panics(r, epoch_salt) ==
    /\ Commitment_verify(r.commitment, r.problem, r.solution, epoch_salt)
    /\ Solution_verify_panics(r.solution, r.problem)

(***************************************************************************)
(* SpecCommit: the commit-reveal calls on a fixed family of inputs.        *)
(***************************************************************************)
CommitProblems ==
    {SubsetSumProblem(<<1, 2, 3, 4, 5>>, 9),
     SATProblem(1, <<Clause(<<1>>)>>),
     SATProblem(1, <<Clause(<<0, 1>>)>>),
     TSPProblem(2, <<<<U64(0), U64(1)>>, <<U64(1), U64(0)>>>>),
     CustomProblem(Filled(5), <<0, 1>>)}

CommitSolutions ==
    {SubsetSumSolution(<<1, 2, 3>>),
     SubsetSumSolution(<<0, 1>>),
     SATSolution(<<TRUE>>),
     TSPSolution(<<0, 1>>),
     CustomSolution(<<0, 1>>)}

\* epoch_salt = H(parent block hash)
EpochSalts == {Hash_new(<<1>>), Hash_new(<<2>>)}

CommitInputs == CommitProblems \X CommitSolutions \X EpochSalts

CreatedCommitments == {Commitment_create(i[1], i[2], i[3]) : i \in CommitInputs}

\* commitments as a header can carry them: created ones, and created ones
\* whose problem_hash field names another problem
Commitments ==
    {[c EXCEPT !.problem_hash = ProblemType_hash(p)] :
        c \in CreatedCommitments, p \in CommitProblems}

Reveals ==
    {SolutionReveal_new(p, s, c) :
        p \in CommitProblems, s \in CommitSolutions, c \in Commitments}

CallCommitmentCreate ==
    /\ call.fn = "Commitment::create"
    /\ result = NoResult
    /\ result' = Returned(Commitment_create(call.problem, call.solution, call.epoch_salt))
    /\ UNCHANGED <<escrow, current_block, reveal, call>>

CallCommitmentVerify ==
    /\ call.fn = "Commitment::verify"
    /\ result = NoResult
    /\ result' = Returned(Commitment_verify(call.self, call.problem, call.solution,
                                            call.epoch_salt))
    /\ UNCHANGED <<escrow, current_block, reveal, call>>

\* reveal.verify(&epoch_salt) in a build with or without overflow checks
CallRevealVerify ==
    /\ call.fn = "SolutionReveal::verify"
    /\ result = NoResult
    /\ result' = IF call.overflow_checks
                      /\ SolutionReveal_verify_panics(reveal, call.epoch_salt)
                 THEN Panicked("attempt to subtract with overflow")
                 ELSE Returned(SolutionReveal_verify(reveal, call.epoch_salt))
    /\ UNCHANGED <<escrow, current_block, reveal, call>>

\* the pending call and its arguments are drawn here; a reveal exists when
\* the call is made on one
InitCommit ==
    /\ escrow = NoEscrow
    /\ current_block = 0
    /\ result = NoResult
    /\ \/ /\ reveal = NoReveal
          /\ \E i \in CommitInputs :
                call = [fn |-> "Commitment::create", problem |-> i[1],
                        solution |-> i[2], epoch_salt |-> i[3]]
       \/ /\ reveal = NoReveal
          /\ \E c \in Commitments, i \in CommitInputs :
                call = [fn |-> "Commitment::verify", self |-> c, problem |-> i[1],
                        solution |-> i[2], epoch_salt |-> i[3]]
       \/ /\ reveal \in Reveals
          /\ \E e \in EpochSalts, checks \in BOOLEAN :
                call = [fn |-> "SolutionReveal::verify", epoch_salt |-> e,
                        overflow_checks |-> checks]

NextCommit == CallCommitmentCreate \/ CallCommitmentVerify \/ CallRevealVerify

SpecCommit == InitCommit /\ [][NextCommit]_vars

(***************************************************************************)
(* Properties of the commit-reveal protocol (checked under SpecCommit).    *)
(***************************************************************************)
CommitmentVerifyReturned == call.fn = "Commitment::verify" /\ result # NoResult
RevealVerifyReturned == call.fn = "SolutionReveal::verify" /\ result # NoResult

\* H(H(encode(p)) || e || H(encode(s)))
CommitmentHash(p, s, e) ==
    Hash_new(<<Hash_new(ProblemType_serialize(p)), e, Hash_new(Solution_serialize(s))>>)

\* c is create(p, s, e), field by field
IsCommitmentTo(c, p, s, e) ==
    /\ c.hash = CommitmentHash(p, s, e)
    /\ c.problem_hash = Hash_new(ProblemType_serialize(p))

\* C6: c.verify(p, s, e) is true if and only if c equals
\* Commitment::create(p, s, e) in both hash and problem_hash, where
\* hash = H(H(encode(p)) || e || H(encode(s))); a commitment created for
\* another problem, solution or salt does not verify.
C6_CommitmentVerifyIffCreated ==
    CommitmentVerifyReturned =>
        /\ result.value <=>
              IsCommitmentTo(call.self, call.problem, call.solution, call.epoch_salt)
        /\ \A i \in CommitInputs :
              (/\ call.self = Commitment_create(i[1], i[2], i[3])
               /\ i # <<call.problem, call.solution, call.epoch_salt>>)
                  => result.value = FALSE

\* a commitment made for indices [1,2,3] is checked against [0,1] and refused
C6_Witness ==
    /\ CommitmentVerifyReturned
    /\ call.problem = SubsetSumProblem(<<1, 2, 3, 4, 5>>, 9)
    /\ call.solution = SubsetSumSolution(<<0, 1>>)
    /\ call.self = Commitment_create(call.problem, SubsetSumSolution(<<1, 2, 3>>),
                                     call.epoch_salt)
    /\ result.value = FALSE

\* C7: SolutionReveal::verify(epoch_salt) is true if and only if the
\* reveal's commitment verifies against its (problem, solution, epoch_salt)
\* and solution.verify(problem) is true.
C7_RevealVerifyRule ==
    (RevealVerifyReturned /\ result.kind = "value") =>
        (result.value <=>
            (/\ IsCommitmentTo(reveal.commitment, reveal.problem, reveal.solution,
                               call.epoch_salt)
             /\ Solution_verify(reveal.solution, reveal.problem)))

\* a reveal whose commitment matches but whose solution does not solve the
\* problem was refused
C7_Witness ==
    /\ RevealVerifyReturned
    /\ reveal.problem = SubsetSumProblem(<<1, 2, 3, 4, 5>>, 9)
    /\ reveal.solution = SubsetSumSolution(<<0, 1>>)
    /\ reveal.commitment =
          Commitment_create(reveal.problem, reveal.solution, call.epoch_salt)
    /\ result = Returned(FALSE)

(***************************************************************************)
(* transaction.rs: signed transfers.  Ed25519 (crate::crypto) is taken as  *)
(* an ideal scheme: a signature names its signer and the message signed.   *)
(***************************************************************************)
\* Address::from_pubkey: the address is the key's 32 bytes
Address_from_pubkey(pubkey) == pubkey

\* KeyPair::public_key for the key pair generated from `seed`
KeyPair_public_key(seed) == Filled(10 + seed)
\* PublicKey::to_address
PublicKey_to_address(pk) == Address_from_pubkey(pk)
\* KeyPair::address
KeyPair_address(seed) == PublicKey_to_address(KeyPair_public_key(seed))
\* KeyPair::sign
KeyPair_sign(seed, message) ==
    [signer |-> KeyPair_public_key(seed), message |-> message]
\* PublicKey::verify
PublicKey_verify(pk, message, signature) ==
    signature = [signer |-> pk, message |-> message]
\* Ed25519Signature::from_bytes([0u8; 64]): no key signed anything with it
ZeroSignature == [signer |-> <<>>, message |-> <<>>]

\* variant of signing_message that leaves the amount out
signing_message_without_amount(tx) ==
    tx.from \o tx.to \o to_le_bytes(tx.fee, 16) \o to_le_bytes(tx.nonce, 8)
        \o tx.public_key

\* Transaction::signing_message (Balance is u128: 16 bytes)
signing_message(tx) ==
    tx.from \o tx.to \o to_le_bytes(tx.amount, 16) \o to_le_bytes(tx.fee, 16)
        \o to_le_bytes(tx.nonce, 8) \o tx.public_key

\* Transaction::new
Transaction_new(from, to, amount, fee, nonce, keypair) ==
    LET tx == [from |-> from, to |-> to, amount |-> amount, fee |-> fee,
               nonce |-> nonce, public_key |-> KeyPair_public_key(keypair),
               signature |-> ZeroSignature]
    IN  [tx EXCEPT !.signature = KeyPair_sign(keypair, signing_message(tx))]

\* Transaction::verify_signature
Transaction_verify_signature(tx) ==
    PublicKey_verify(tx.public_key, signing_message(tx), tx.signature)

\* Transaction::is_valid
Transaction_is_valid(tx) ==
    IF ~Transaction_verify_signature(tx) THEN FALSE
    ELSE IF tx.from # PublicKey_to_address(tx.public_key) THEN FALSE
    ELSE IF tx.amount = 0 /\ tx.fee = 0 THEN FALSE
    ELSE TRUE

(***************************************************************************)
(* SpecTransaction: Transaction::new, verify_signature and is_valid on     *)
(* transactions as a peer can send them.                                   *)
(***************************************************************************)
KeyPairs == {1, 2}
TxFroms == {KeyPair_address(k) : k \in KeyPairs} \cup {Filled(1)}
TxTos == {Filled(1), Filled(2)}
TxAmounts == {0, 1000, 9999}
TxFees == {0, 10}
TxNonces == {1, 2}

NewInputs == TxFroms \X {Filled(1)} \X TxAmounts \X TxFees \X TxNonces \X KeyPairs
NewTransactions ==
    {Transaction_new(i[1], i[2], i[3], i[4], i[5], i[6]) : i \in NewInputs}

\* every combination of fields with a signature some transaction carried, or
\* the all-zero one
Transactions ==
    [from : TxFroms, to : TxTos, amount : TxAmounts, fee : TxFees,
     nonce : TxNonces, public_key : {KeyPair_public_key(k) : k \in KeyPairs},
     signature : {t.signature : t \in NewTransactions} \cup {ZeroSignature}]

CallTransactionNew ==
    /\ call.fn = "Transaction::new"
    /\ result = NoResult
    /\ result' = Returned(Transaction_new(call.from, call.to, call.amount,
                                          call.fee, call.nonce, call.keypair))
    /\ UNCHANGED <<escrow, current_block, reveal, call>>

CallVerifySignature ==
    /\ call.fn = "Transaction::verify_signature"
    /\ result = NoResult
    /\ result' = Returned(Transaction_verify_signature(call.self))
    /\ UNCHANGED <<escrow, current_block, reveal, call>>

CallIsValid ==
    /\ call.fn = "Transaction::is_valid"
    /\ result = NoResult
    /\ result' = Returned(Transaction_is_valid(call.self))
    /\ UNCHANGED <<escrow, current_block, reveal, call>>

InitTransaction ==
    /\ escrow = NoEscrow
    /\ current_block = 0
    /\ reveal = NoReveal
    /\ \/ \E i \in NewInputs :
             call = [fn |-> "Transaction::new", from |-> i[1], to |-> i[2],
                     amount |-> i[3], fee |-> i[4], nonce |-> i[5],
                     keypair |-> i[6]]
       \/ \E tx \in Transactions,
             fn \in {"Transaction::verify_signature", "Transaction::is_valid"} :
             call = [fn |-> fn, self |-> tx]
    /\ result = NoResult

NextTransaction ==
    \/ CallTransactionNew
    \/ CallVerifySignature
    \/ CallIsValid

SpecTransaction == InitTransaction /\ [][NextTransaction]_vars

(***************************************************************************)
(* Properties of Transaction (checked under SpecTransaction).              *)
(***************************************************************************)
IsValidReturned == call.fn = "Transaction::is_valid" /\ result # NoResult
VerifySignatureReturned ==
    call.fn = "Transaction::verify_signature" /\ result # NoResult

\* the six fields a signature covers
SignedFields(tx) == <<tx.from, tx.to, tx.amount, tx.fee, tx.nonce, tx.public_key>>

\* tx carries the signature the owner of its public_key makes over its own
\* signed fields
GenuinelySigned(tx) ==
    \E k \in KeyPairs :
        tx = Transaction_new(tx.from, tx.to, tx.amount, tx.fee, tx.nonce, k)

\* tx is what Transaction::new returns for from = keypair.address()
BuiltByOwner(tx) ==
    \E k \in KeyPairs :
        tx = Transaction_new(KeyPair_address(k), tx.to, tx.amount, tx.fee,
                             tx.nonce, k)

\* tx carries the signature of a transaction Transaction::new built, with a
\* signed field changed since
ChangedAfterSigning(tx) ==
    \E t \in NewTransactions :
        tx.signature = t.signature /\ SignedFields(tx) # SignedFields(t)

C28_AmountAndFeeNonZero ==
    IsValidReturned =>
        ((call.self.amount = 0 \/ call.self.fee = 0) => result = Returned(FALSE))

(***************************************************************************)
(* Decoding the textual form.  An object literal is the sequence of its    *)
(* <<key, value>> members; a struct is decoded by the Deserialize that     *)
(* serde derives for it.                                                   *)
(***************************************************************************)
DecodeOk(value) == [kind |-> "Ok", value |-> value]
DecodeError(variant, detail) == [kind |-> variant, detail |-> detail]

\* the derived visit_map: every member is matched against the declared
\* fields; a key that is none of them is an error under
\* #[serde(deny_unknown_fields)] and is skipped without it; `seen` holds the
\* fields read so far
RECURSIVE visit_map(_, _, _, _)
visit_map(fields, deny_unknown_fields, members, seen) ==
    IF members = <<>>
    THEN LET missing == {i \in 1..Len(fields) : seen[i] = None}
         IN  IF missing # {}
             THEN DecodeError("MissingField",
                              fields[CHOOSE i \in missing : \A j \in missing : i <= j])
             ELSE DecodeOk([i \in 1..Len(fields) |-> seen[i][1]])
    ELSE LET key == Head(members)[1]
             value == Head(members)[2]
             idx == {i \in 1..Len(fields) : fields[i] = key}
         IN  IF idx = {}
             THEN IF deny_unknown_fields
                  THEN DecodeError("UnknownField", key)
                  ELSE visit_map(fields, deny_unknown_fields, Tail(members), seen)
             ELSE LET i == CHOOSE i \in idx : TRUE
                  IN  IF seen[i] # None
                      THEN DecodeError("DuplicateField", key)
                      ELSE visit_map(fields, deny_unknown_fields, Tail(members),
                                     [seen EXCEPT ![i] = Some(value)])

\* T::deserialize for the struct `schema` describes
Deserialize(schema, members) ==
    visit_map(schema.fields, schema.deny_unknown_fields, members,
              [i \in 1..Len(schema.fields) |-> None])

\* decode_json::<T>(text)
decode_json(schema, members) == Deserialize(schema, members)

(***************************************************************************)
(* Decoding the binary form (MessagePack): a struct of n fields is an      *)
(* array header followed by its fields, a byte string is a bin8 header,    *)
(* its length and its bytes.                                               *)
(***************************************************************************)
\* fixarray header for an array of 0 elements; bin8 header
FIXARRAY == 144
BIN8 == 196

\* encode_msgpack of a struct whose fields are byte strings
encode_msgpack(value) ==
    <<FIXARRAY + Len(value)>>
        \o Flatten([i \in 1..Len(value) |-> <<BIN8, Len(value[i])>> \o value[i]])

\* read n byte-string fields starting after `offset` bytes
RECURSIVE read_fields(_, _, _, _)
read_fields(bytes, offset, n, acc) ==
    IF n = 0 THEN [kind |-> "Ok", value |-> acc, consumed |-> offset]
    ELSE IF offset + 2 > Len(bytes) THEN DecodeError("UnexpectedEof", offset)
    ELSE IF bytes[offset + 1] # BIN8 THEN DecodeError("TypeMismatch", offset)
    ELSE LET len == bytes[offset + 2]
         IN  IF offset + 2 + len > Len(bytes)
             THEN DecodeError("UnexpectedEof", offset)
             ELSE read_fields(bytes, offset + 2 + len, n - 1,
                              Append(acc, SubSeq(bytes, offset + 3, offset + 2 + len)))

\* read the single top-level value: a struct of n fields
read_value(n, bytes) ==
    IF bytes = <<>> THEN DecodeError("UnexpectedEof", 0)
    ELSE IF bytes[1] # FIXARRAY + n THEN DecodeError("TypeMismatch", 0)
    ELSE read_fields(bytes, 1, n, <<>>)

\* variant of decode_msgpack that stops after the top-level value
decode_msgpack_lenient(n, bytes) ==
    LET r == read_value(n, bytes)
    IN  IF r.kind # "Ok" THEN r ELSE DecodeOk(r.value)

\* decode_msgpack::<T>(bytes): the value, and nothing may follow it
decode_msgpack(n, bytes) ==
    LET r == read_value(n, bytes)
    IN  IF r.kind # "Ok" THEN r
        ELSE IF r.consumed < Len(bytes) THEN DecodeError("TrailingData", r.consumed)
        ELSE DecodeOk(r.value)

(***************************************************************************)
(* Encoding.  A value of a struct whose fields are byte strings is the     *)
(* sequence of its fields in declared order; the textual form writes a     *)
(* byte string as lowercase hex, two digits a byte.                        *)
(***************************************************************************)
HexDigits ==
    <<"0", "1", "2", "3", "4", "5", "6", "7", "8", "9", "a", "b", "c", "d", "e", "f">>

\* hex::encode: the digits of every byte, high nibble first
to_hex(bytes) ==
    Flatten([i \in 1..Len(bytes) |->
                <<HexDigits[(bytes[i] \div 16) + 1], HexDigits[(bytes[i] % 16) + 1]>>])

HexValue(d) == (CHOOSE k \in 1..16 : HexDigits[k] = d) - 1
IsHex(text) ==
    /\ Len(text) % 2 = 0
    /\ \A i \in 1..Len(text) : \E k \in 1..16 : HexDigits[k] = text[i]

\* variant of from_hex that reads the low nibble first
from_hex_low_nibble_first(text) ==
    [i \in 1..(Len(text) \div 2) |->
        HexValue(text[2 * i - 1]) + 16 * HexValue(text[2 * i])]

\* hex::decode of a text already known to be hex
from_hex(text) ==
    [i \in 1..(Len(text) \div 2) |->
        16 * HexValue(text[2 * i - 1]) + HexValue(text[2 * i])]

\* encode_json(&value): one member per declared field, in declared order
encode_json(schema, value) ==
    [i \in 1..Len(schema.fields) |-> <<schema.fields[i], to_hex(value[i])>>]

\* decode_json::<T>(text) for a T whose fields are byte strings: the members
\* are read as decode_json reads them and every value is parsed as hex
decode_json_bytes(schema, members) ==
    LET r == decode_json(schema, members)
    IN  IF r.kind # "Ok" THEN r
        ELSE IF \E i \in 1..Len(r.value) : ~IsHex(r.value[i])
        THEN DecodeError("TypeMismatch",
                         schema.fields[CHOOSE i \in 1..Len(r.value) :
                                          /\ ~IsHex(r.value[i])
                                          /\ \A j \in 1..(i - 1) : IsHex(r.value[j])])
        ELSE DecodeOk([i \in 1..Len(r.value) |-> from_hex(r.value[i])])

\* network-b's Commitment: #[derive(Clone, Debug, Serialize, Deserialize)]
CommitmentSchema ==
    [type |-> "Commitment", fields |-> <<"hash", "problem_hash">>,
     deny_unknown_fields |-> FALSE]

\* network-b's SolutionReveal: the same derive
SolutionRevealSchema ==
    [type |-> "SolutionReveal", fields |-> <<"problem", "solution", "commitment">>,
     deny_unknown_fields |-> FALSE]

\* coinjecture-core's Commitment, as its tests write it
CoreCommitmentSchema ==
    [type |-> "coinjecture_core::types::Commitment",
     fields |-> <<"epoch_salt", "problem_hash", "solution_hash", "miner_salt">>,
     deny_unknown_fields |-> TRUE]

\* coinjecture-core's VerifyBudget, as its tests write it
VerifyBudgetSchema ==
    [type |-> "coinjecture_core::types::VerifyBudget",
     fields |-> <<"max_ops", "max_duration_ms", "max_memory_bytes">>,
     deny_unknown_fields |-> TRUE]

Schemas ==
    {CommitmentSchema, SolutionRevealSchema, CoreCommitmentSchema, VerifyBudgetSchema}

(***************************************************************************)
(* SpecCodec: decoding on encodings of values, with and without an         *)
(* undeclared member.                                                      *)
(***************************************************************************)
MemberValues == {"aa", "bb"}
\* the keys the tests smuggle in
ExtraKeys == {"bypass_cache", "malicious_field"}

\* the textual encodings of the values of a type: its fields in declared order
ValidEncodings(schema) ==
    {[i \in 1..Len(schema.fields) |-> <<schema.fields[i], v[i]>>] :
        v \in [1..Len(schema.fields) -> MemberValues]}

InsertAt(seq, k, x) == SubSeq(seq, 1, k) \o <<x>> \o SubSeq(seq, k + 1, Len(seq))

\* the longest byte-string field and the longest trailing garbage
MaxBytes == 2
\* bytes as the tests append them, a header byte among them
PayloadBytes == {0, BIN8, 222}
\* the values of a struct with two byte-string fields
BinaryValues == [1..2 -> SeqsUpTo(PayloadBytes, MaxBytes)]
TrailingBytes == SeqsUpTo(PayloadBytes, MaxBytes)
\* how often the tests' loop encodes and decodes again
Passes == 3
\* the values of a type whose fields are byte strings of at most one byte,
\* and the longest fields in one field at a time
RoundTripValues(schema) ==
    [1..Len(schema.fields) -> SeqsUpTo(PayloadBytes, 1)]
        \cup {[i \in 1..Len(schema.fields) |-> IF i = k THEN b ELSE <<>>] :
                 k \in 1..Len(schema.fields), b \in SeqsUpTo(PayloadBytes, MaxBytes)}

\* decode_json::<T>(text) for the type and text of the pending call
CallDecodeJson ==
    /\ call.fn = "decode_json"
    /\ result = NoResult
    /\ result' = decode_json(call.schema, call.input)
    /\ UNCHANGED <<escrow, current_block, reveal, call>>

\* decode_msgpack::<T>(bytes) for the bytes of the pending call
CallDecodeMsgpack ==
    /\ call.fn = "decode_msgpack"
    /\ result = NoResult
    /\ result' = decode_msgpack(call.fields, call.input)
    /\ UNCHANGED <<escrow, current_block, reveal, call>>

\* one pass of the tests' encode-then-decode loop over the value in hand:
\* both forms are written and read back, and the value read from the textual
\* form is the one the next pass encodes
CallRoundTrip ==
    /\ call.fn = "round_trip"
    /\ call.pass < Passes
    /\ result.kind \in {"none", "round_trip"}
    /\ LET x == IF result = NoResult THEN call.value ELSE result.from_json.value
       IN  result' =
             [kind |-> "round_trip",
              from_json |-> decode_json_bytes(call.schema, encode_json(call.schema, x)),
              from_msgpack |->
                  decode_msgpack(Len(call.schema.fields), encode_msgpack(x))]
    /\ call' = [call EXCEPT !.pass = @ + 1]
    /\ UNCHANGED <<escrow, current_block, reveal>>

\* the pending call's input is a valid encoding, as it is or with one
\* undeclared member put in at position k (textual), or followed by `extra`
\* bytes (binary)
InitCodec ==
    /\ escrow = NoEscrow
    /\ current_block = 0
    /\ reveal = NoReveal
    /\ \/ \E schema \in Schemas :
             \E e \in ValidEncodings(schema) :
                \/ call = [fn |-> "decode_json", schema |-> schema, input |-> e,
                           valid |-> e, extra |-> None]
                \/ \E k \in 0..Len(e), x \in ExtraKeys :
                      call = [fn |-> "decode_json", schema |-> schema,
                              input |-> InsertAt(e, k, <<x, "true">>),
                              valid |-> e, extra |-> Some(x)]
       \/ \E value \in BinaryValues, extra \in TrailingBytes :
             call = [fn |-> "decode_msgpack", fields |-> Len(value),
                     input |-> encode_msgpack(value) \o extra,
                     value |-> value, extra |-> extra]
       \/ \E schema \in Schemas :
             \E value \in RoundTripValues(schema) :
                call = [fn |-> "round_trip", schema |-> schema, value |-> value,
                        pass |-> 0]
    /\ result = NoResult

NextCodec == CallDecodeJson \/ CallDecodeMsgpack \/ CallRoundTrip

SpecCodec == InitCodec /\ [][NextCodec]_vars

(***************************************************************************)
(* Properties of decoding (checked under SpecCodec).                       *)
(***************************************************************************)
DecodeJsonReturned == call.fn = "decode_json" /\ result # NoResult

\* C19: decoding the textual form of any schema type fails with an
\* unknown-field error whenever the input is a valid encoding with one extra
\* key that the schema does not declare; the same input without the extra
\* key decodes successfully.
C19_UnknownFieldRejected ==
    DecodeJsonReturned =>
        IF call.extra = None
        THEN result = DecodeOk([i \in 1..Len(call.valid) |-> call.valid[i][2]])
        ELSE result = DecodeError("UnknownField", call.extra[1])

DecodeMsgpackReturned == call.fn = "decode_msgpack" /\ result # NoResult

\* C20: for every valid binary encoding b of a value and every non-empty
\* byte string extra, decoding b || extra fails with a trailing-data error,
\* while decoding b alone succeeds.
C20_TrailingDataRejected ==
    DecodeMsgpackReturned =>
        IF call.extra = <<>>
        THEN result = DecodeOk(call.value)
        ELSE result.kind = "TrailingData"

\* decoding has refused an encoding followed by bytes that read as one more
\* empty field
C20_Witness ==
    /\ DecodeMsgpackReturned
    /\ call.extra = <<BIN8, 0>>
    /\ call.input = encode_msgpack(call.value) \o call.extra
    /\ result = DecodeError("TrailingData", Len(encode_msgpack(call.value)))

RoundTripReturned == call.fn = "round_trip" /\ result # NoResult

\* C21: for every well-formed value x of a schema type, decode(encode(x)) = x
\* in both the textual and the binary form, so decoding the textual encoding
\* and decoding the binary encoding of the same value give equal values, and
\* repeated encode/decode of the same value always gives the same result.
C21_RoundTrip ==
    RoundTripReturned =>
        /\ result.from_json = DecodeOk(call.value)
        /\ result.from_msgpack = DecodeOk(call.value)
        /\ result.from_json = result.from_msgpack

\* a value with a header byte and a byte of two different nibbles in it has
\* gone through every pass of the loop
C21_Witness ==
    /\ RoundTripReturned
    /\ call.pass = Passes
    /\ \E i \in 1..Len(call.value) : call.value[i] = <<BIN8, 222>>
    /\ result.from_json = DecodeOk(call.value)

(***************************************************************************)
(* SpecEscrowApi: the functions of escrow.rs called one at a time on the   *)
(* escrows the module's tests build, with the caller's mutation as a step  *)
(* of its own.                                                             *)
(***************************************************************************)
\* the escrow of test_validate_escrow_release_valid
LockedFixture ==
    [id |-> Filled(0),
     submitter |-> Filled(1),
     amount |-> MIN_ESCROW_AMOUNT,
     problem_hash |-> Filled(2),
     created_block |-> 1000,
     expiry_block |-> 2000,
     state |-> Locked,
     recipient |-> None,
     settled_block |-> None,
     settlement_tx |-> None]

\* the escrow of test_validate_escrow_release_already_released
ReleasedFixture ==
    [LockedFixture EXCEPT !.state = Released,
                          !.recipient = Some(Filled(3)),
                          !.settled_block = Some(1500),
                          !.settlement_tx = Some(Filled(4))]

\* the escrow of test_validate_escrow_refund_already_refunded
RefundedFixture ==
    [LockedFixture EXCEPT !.state = Refunded,
                          !.recipient = None,
                          !.settled_block = Some(2000),
                          !.settlement_tx = Some(Filled(4))]

EscrowFixtures == {LockedFixture, ReleasedFixture, RefundedFixture}

\* creation parameters on both sides of every rule
ApiAmounts == {MIN_ESCROW_AMOUNT - 1, MIN_ESCROW_AMOUNT}
ApiExpiryBlocks ==
    {LockedFixture.created_block + d :
        d \in {0, MIN_ESCROW_DURATION - 1, MIN_ESCROW_DURATION,
               MAX_ESCROW_DURATION, MAX_ESCROW_DURATION + 1}}

IdSubmitters == {Filled(1), Filled(2), LastByteOne}
IdProblemHashes == {Filled(1), Filled(2)}
IdCreatedBlocks == {0, 1, 255, 256, 1000, 1001, 65536, 16777216}

ValidateCreation(amount, created_block, expiry_block) ==
    /\ call' = [fn |-> "validate_escrow_creation", amount |-> amount,
                created_block |-> created_block, expiry_block |-> expiry_block]
    /\ result' = validate_escrow_creation(amount, created_block, expiry_block)
    /\ UNCHANGED <<escrow, current_block, reveal>>

ValidateTransition(current_state, new_state) ==
    /\ call' = [fn |-> "validate_state_transition",
                current_state |-> current_state, new_state |-> new_state]
    /\ result' = validate_state_transition(current_state, new_state)
    /\ UNCHANGED <<escrow, current_block, reveal>>

\* validate_escrow_release(&escrow, &recipient)
ValidateRelease(recipient) ==
    /\ call' = [fn |-> "validate_escrow_release", escrow |-> escrow,
                recipient |-> recipient]
    /\ result' = validate_escrow_release(escrow, recipient)
    /\ UNCHANGED <<escrow, current_block, reveal>>

\* validate_escrow_refund(&escrow, block), whatever height the caller names
ValidateRefund(block) ==
    /\ call' = [fn |-> "validate_escrow_refund", escrow |-> escrow,
                current_block |-> block]
    /\ result' = validate_escrow_refund(escrow, block)
    /\ UNCHANGED <<escrow, current_block, reveal>>

ComputeEscrowId(submitter, problem_hash, created_block) ==
    /\ call' = [fn |-> "compute_escrow_id", submitter |-> submitter,
                problem_hash |-> problem_hash, created_block |-> created_block]
    /\ result' = Returned(compute_escrow_id(submitter, problem_hash, created_block))
    /\ UNCHANGED <<escrow, current_block, reveal>>

\* the caller settles the escrow it has just validated at this height
SettleEscrow ==
    /\ result = Ok
    /\ call.fn \in {"validate_escrow_release", "validate_escrow_refund"}
    /\ call.escrow = escrow
    /\ call.fn = "validate_escrow_refund" => call.current_block = current_block
    /\ escrow' = IF call.fn = "validate_escrow_release"
                 THEN Settle(escrow, Released, Some(call.recipient), current_block,
                             SettlementTx)
                 ELSE Settle(escrow, Refunded, None, current_block, SettlementTx)
    /\ UNCHANGED <<current_block, reveal, call, result>>

\* one call of a function of escrow.rs
EscrowCall ==
    \/ \E a \in ApiAmounts, x \in ApiExpiryBlocks :
          ValidateCreation(a, LockedFixture.created_block, x)
    \/ \E s, t \in EscrowState : ValidateTransition(s, t)
    \/ \E r \in Recipients : ValidateRelease(r)
    \/ \E h \in Heights(escrow) : ValidateRefund(h)
    \/ \E s \in IdSubmitters, p \in IdProblemHashes, c \in IdCreatedBlocks :
          ComputeEscrowId(s, p, c)

InitEscrowApi ==
    /\ escrow \in EscrowFixtures
    /\ current_block = IF escrow.settled_block = None THEN escrow.created_block
                       ELSE escrow.settled_block[1]
    /\ reveal = NoReveal
    /\ call = NoCall
    /\ result = NoResult

NextEscrowApi ==
    \/ EscrowCall
    \/ SettleEscrow
    \/ AdvanceBlock

SpecEscrowApi == InitEscrowApi /\ [][NextEscrowApi]_vars

(***************************************************************************)
(* Properties of the functions of escrow.rs (checked under SpecEscrowApi). *)
(***************************************************************************)
ValidatorFns ==
    {"validate_escrow_creation", "validate_state_transition",
     "validate_escrow_release", "validate_escrow_refund"}

IdReturned == call.fn = "compute_escrow_id" /\ result # NoResult

\* the number a little-endian byte string spells
RECURSIVE DecodeLE(_)
DecodeLE(bytes) ==
    IF bytes = <<>> THEN 0 ELSE Head(bytes) + 256 * DecodeLE(Tail(bytes))

\* the id is H of 72 bytes: submitter, problem_hash, created_block as 8
\* little-endian bytes
IdPreimageConforms ==
    LET preimage == result.value.sha256
    IN  /\ Len(preimage) = 2 * ADDRESS_LEN + 8
        /\ \A i \in 1..ADDRESS_LEN :
              /\ preimage[i] = call.submitter[i]
              /\ preimage[ADDRESS_LEN + i] = call.problem_hash[i]
        /\ DecodeLE(SubSeq(preimage, 2 * ADDRESS_LEN + 1, 2 * ADDRESS_LEN + 8))
              = call.created_block

\* C16: compute_escrow_id(submitter, problem_hash, created_block) is
\* deterministic and equals H(submitter || problem_hash || created_block as
\* 8 little-endian bytes); two different input triples always give different
\* preimages, so changing any one of the three inputs changes the id (H is
\* collision-free).  Each call is compared with the call before it.
C16_EscrowIdRule ==
    [][(call'.fn = "compute_escrow_id") =>
          /\ IdPreimageConforms'
          /\ IdReturned => ((result' = result) <=> (call' = call))]_vars

\* an id was computed for a block number that needs more than one byte
C16_Witness ==
    /\ IdReturned
    /\ call.created_block >= 256
    /\ call.submitter # call.problem_hash
    /\ result.value = sha256(call.submitter \o call.problem_hash
                               \o to_le_bytes(call.created_block, 8))

EscrowValidated ==
    call.fn \in {"validate_escrow_release", "validate_escrow_refund"}

Populated(opt) == opt # None

\* C17: for every BountyEscrow the validators accept or operate on,
\* recipient, settled_block and settlement_tx are all populated if and only
\* if state is not Locked: all three absent in Locked, all three present in
\* Released and in Refunded.
C17_SettlementFieldsRule ==
    EscrowValidated =>
        LET e == call.escrow
        IN  IF e.state = Locked
            THEN ~Populated(e.recipient) /\ ~Populated(e.settled_block)
                    /\ ~Populated(e.settlement_tx)
            ELSE Populated(e.recipient) /\ Populated(e.settled_block)
                    /\ Populated(e.settlement_tx)

ReleaseValidated ==
    call.fn = "validate_escrow_release" /\ result # NoResult

\* C25: validate_escrow_release rejects a release for which no settlement
\* transaction hash is provided (the documented third validation rule), in
\* addition to the state and recipient checks.
C25_ReleaseNeedsSettlementTx ==
    ReleaseValidated =>
        /\ (call.escrow.settlement_tx = None) => ~IsOk(result)
        /\ (call.escrow.state # Locked) => result.kind = "InvalidStateTransition"
        /\ (call.escrow.state = Locked /\ call.recipient = ZERO_ADDRESS)
              => result.kind = "InvalidParameter"

Settled == escrow # NoEscrow /\ escrow.state \in {Released, Refunded}

\* C26: in every sequence of operations in which the caller changes an
\* escrow's state only after the corresponding validator
\* (validate_state_transition, validate_escrow_release or
\* validate_escrow_refund) returned Ok, Released and Refunded are terminal: an
\* escrow that reached Released never later becomes Refunded or Locked, one
\* that reached Refunded never becomes Released or Locked, and therefore each
\* escrow's funds are paid out at most once (a settled escrow keeps its
\* recipient, settlement block and settlement transaction).
C26_SettledIsTerminal ==
    [][Settled => escrow' = escrow]_vars

\* a released escrow was offered for refund after its expiry, was refused and
\* is still the released escrow
C26_Witness ==
    /\ Settled
    /\ escrow.state = Released
    /\ call.fn = "validate_escrow_refund"
    /\ call.escrow = escrow
    /\ call.current_block >= escrow.expiry_block
    /\ result = InvalidStateTransition("Released", "Refunded")

\* the step validates a release, or a refund, of the stored escrow at the
\* present height
ReleaseStep ==
    /\ current_block' = current_block
    /\ call'.fn = "validate_escrow_release"
    /\ call'.escrow = escrow
RefundStep ==
    /\ current_block' = current_block
    /\ call'.fn = "validate_escrow_refund"
    /\ call'.escrow = escrow
    /\ call'.current_block = current_block

\* C27: release is not disabled by expiry: for a Locked escrow at any block
\* height h >= expiry_block, both validate_escrow_release (with a non-zero
\* recipient) and validate_escrow_refund(h) succeed, so after expiry the
\* escrow can end in either Released or Refunded depending only on which
\* settlement the caller applies first; before expiry only release can
\* succeed.
C27_ReleaseSurvivesExpiry ==
    [][(escrow # NoEscrow /\ escrow.state = Locked) =>
          /\ (ReleaseStep /\ call'.recipient # ZERO_ADDRESS) =>
                (IsOk(result') /\ escrow'.state = Released)
          /\ RefundStep =>
                IF current_block >= escrow.expiry_block
                THEN IsOk(result') /\ escrow'.state = Refunded
                ELSE ~IsOk(result') /\ escrow' = escrow]_vars

\* an escrow was released at a height at which its refund was open too
C27_Witness ==
    /\ escrow # NoEscrow
    /\ escrow.state = Released
    /\ call.fn = "validate_escrow_release"
    /\ call.escrow.state = Locked
    /\ IsOk(result)
    /\ escrow.settled_block = Some(current_block)
    /\ current_block >= escrow.expiry_block
    /\ IsOk(validate_escrow_refund(call.escrow, current_block))

(***************************************************************************)
(* Properties of the escrow validators (checked under SpecEscrow).         *)
(***************************************************************************)
CalledTransition == call.fn = "validate_state_transition"
CalledRelease == call.fn = "validate_escrow_release"
CalledRefund == call.fn = "validate_escrow_refund"
CalledCreation == call.fn = "validate_escrow_creation"

AllowedTransition(cur, new) ==
    cur = new \/ (cur = Locked /\ new \in {Released, Refunded})

\* C1: validate_state_transition(current, new) returns Ok exactly when
\* current = new or current is Locked and new is Released or Refunded; every
\* other pair (in particular every move out of Released or Refunded) returns
\* InvalidStateTransition{from, to}.
C1_TransitionRule ==
    CalledTransition =>
        /\ IsOk(result) <=> AllowedTransition(call.current_state, call.new_state)
        /\ ~AllowedTransition(call.current_state, call.new_state) =>
              result = InvalidStateTransition(DebugState(call.current_state),
                                              DebugState(call.new_state))
        /\ (call.current_state \in {Released, Refunded}
              /\ call.new_state # call.current_state) => ~IsOk(result)

\* a settled escrow was asked to move to the other settled state and was refused
C1_Witness ==
    /\ CalledTransition
    /\ call.current_state = Released
    /\ call.new_state = Refunded
    /\ result = InvalidStateTransition("Released", "Refunded")

\* C2: for a Locked escrow validate_escrow_refund succeeds when
\* current_block >= expiry_block (equality included) and is rejected when
\* current_block < expiry_block; for an escrow that is not Locked it is
\* rejected with InvalidStateTransition at every height.  So a refund that
\* was applied was applied at or after the expiry block.
C2_RefundRule ==
    CalledRefund =>
        /\ call.escrow.state = Locked =>
              (IsOk(result) <=> call.current_block >= call.escrow.expiry_block)
        /\ call.escrow.state # Locked => result.kind = "InvalidStateTransition"
        /\ IsOk(result) =>
              /\ escrow.state = Refunded
              /\ escrow.settled_block = Some(call.current_block)
              /\ escrow.settled_block[1] >= escrow.expiry_block

\* a refund validated exactly at the expiry block
C2_Witness ==
    /\ CalledRefund
    /\ call.escrow.state = Locked
    /\ call.current_block = call.escrow.expiry_block
    /\ IsOk(result)
    /\ escrow.state = Refunded

AmountRule(e) == e.amount >= MIN_ESCROW_AMOUNT
DurationRule(e) ==
    /\ e.expiry_block - e.created_block >= MIN_ESCROW_DURATION
    /\ e.expiry_block - e.created_block <= MAX_ESCROW_DURATION

\* C4: validate_escrow_creation returns Ok if and only if amount >= 1000 and
\* 100 <= expiry_block - created_block <= 100000 (bounds inclusive); the
\* stored escrow satisfies the amount and duration invariants in every state
\* of its life.
C4_CreationRule ==
    /\ CalledCreation => (IsOk(result) <=> (AmountRule(call) /\ DurationRule(call)))
    /\ escrow # NoEscrow => (AmountRule(escrow) /\ DurationRule(escrow))

\* an escrow of the minimum amount and the maximum duration, after settlement
C4_Witness ==
    /\ escrow # NoEscrow
    /\ escrow.state = Refunded
    /\ escrow.amount = MIN_ESCROW_AMOUNT
    /\ escrow.expiry_block - escrow.created_block = MAX_ESCROW_DURATION

\* C5: validate_escrow_creation reports the first failing rule in the order
\* amount, block order, duration: amount < 1000 gives
\* InsufficientBalance{available = amount, required = 1000} whatever the
\* blocks; otherwise expiry_block <= created_block gives
\* InvalidParameter("expiry_block"); otherwise a duration below 100 or above
\* 100000 gives InvalidParameter("duration").
C5_CreationErrorOrder ==
    CalledCreation =>
        /\ call.amount < MIN_ESCROW_AMOUNT =>
              result = InsufficientBalance(call.amount, MIN_ESCROW_AMOUNT)
        /\ (call.amount >= MIN_ESCROW_AMOUNT
              /\ call.expiry_block <= call.created_block) =>
              (result.kind = "InvalidParameter" /\ result.param = "expiry_block")
        /\ (call.amount >= MIN_ESCROW_AMOUNT
              /\ call.expiry_block > call.created_block
              /\ ~DurationRule(call)) =>
              (result.kind = "InvalidParameter" /\ result.param = "duration")

\* an amount below the minimum together with expiry = created
C5_Witness ==
    /\ CalledCreation
    /\ call.amount < MIN_ESCROW_AMOUNT
    /\ call.expiry_block = call.created_block
    /\ result.kind = "InsufficientBalance"

====
